---- MODULE Spec2Model ----
(***************************************************************************)
(* Prompt-to-Prompt attention controllers (prompt-to-prompt_stable.py and  *)
(* prompt-to-prompt_ldm.py) as a state machine.                            *)
(*                                                                         *)
(* Tensors are modelled exactly over the rationals (a value is a reduced   *)
(* fraction <<numerator, denominator>>); floating-point rounding is not    *)
(* modelled.  An attention tensor of shape (rows, res, keys) carries its    *)
(* true leading size `rows`, its true number of query positions `res`      *)
(* (shape[1], which the code compares against 16**2 and 32**2) and the     *)
(* values of the first Pix query positions and NumWords key positions.     *)
(* All indices are 0-based, as in the source.                              *)
(***************************************************************************)
EXTENDS Integers, Sequences, FiniteSets, TLC

\* ------------------------------------------------------------------ bounds
\* Key (token) positions carried per tensor; stands for MAX_NUM_WORDS = 77.
NumWords == 3
\* Largest number of diffusion timesteps of a session.
MaxSteps == 2

\* ---------------------------------------------------------- sample inputs
\* The latents of a timestep: each decides the maps the host computes in it.
Seeds == {1, 2}

\* --------------------------------------------------------------- rationals
RECURSIVE GCD(_, _)
GCD(a, b) == IF b = 0 THEN a ELSE GCD(b, a % b)

Abs(x) == IF x < 0 THEN -x ELSE x

\* The reduced fraction n/d (d # 0), denominator positive.
Rat(n, d) ==
  LET g == GCD(Abs(n), Abs(d))
      s == IF d < 0 THEN -1 ELSE 1
  IN  <<(s * n) \div g, (s * d) \div g>>

R0 == <<0, 1>>
R1 == <<1, 1>>
RHalf == <<1, 2>>
RInt(n) == <<n, 1>>

RAdd(a, b) == Rat(a[1] * b[2] + b[1] * a[2], a[2] * b[2])
RSub(a, b) == Rat(a[1] * b[2] - b[1] * a[2], a[2] * b[2])
RMul(a, b) == Rat(a[1] * b[1], a[2] * b[2])
RDiv(a, b) == Rat(a[1] * b[2], a[2] * b[1])
RLe(a, b) == a[1] * b[2] <= b[1] * a[2]
RLt(a, b) == a[1] * b[2] < b[1] * a[2]

\* Python's int() of a non-negative rational: truncation.
PyInt(a) == a[1] \div a[2]

\* ----------------------------------------------------------------- tensors
RowIdx(t) == 0 .. (t.rows - 1)
\* The query positions (pixels) whose values a tensor carries.
PixIdx == {0, 1}
WordIdx == 0 .. (NumWords - 1)

\* t[lo:] along the leading axis.
SliceFrom(t, lo) ==
  [rows |-> t.rows - lo, res |-> t.res,
   d |-> [r \in 0 .. (t.rows - lo - 1) |-> t.d[r + lo]]]

\* t[:hi] along the leading axis.
SliceTo(t, hi) ==
  [rows |-> hi, res |-> t.res, d |-> [r \in 0 .. (hi - 1) |-> t.d[r]]]

\* t[lo:] = u along the leading axis (u has t.rows - lo rows).
AssignFrom(t, lo, u) ==
  [rows |-> t.rows, res |-> t.res,
   d |-> [r \in RowIdx(t) |-> IF r >= lo THEN u.d[r - lo] ELSE t.d[r]]]

\* a += b, elementwise, shapes equal.
TAdd(a, b) ==
  [rows |-> a.rows, res |-> a.res,
   d |-> [r \in RowIdx(a) |-> [p \in PixIdx |-> [n \in WordIdx |->
            RAdd(a.d[r][p][n], b.d[r][p][n])]]]]

\* a / k for a Python number k.
TDivScalar(a, k) ==
  [rows |-> a.rows, res |-> a.res,
   d |-> [r \in RowIdx(a) |-> [p \in PixIdx |-> [n \in WordIdx |->
            RDiv(a.d[r][p][n], RInt(k))]]]]

SameShape(a, b) == a.rows = b.rows /\ a.res = b.res

\* No tensor (a value that was not computed).
NoTensor == [rows |-> 0, res |-> 0, d |-> <<>>]

\* The attention tensor the host network computes for a layer call (softmax
\* output): its content is decided by the timestep's latent (seed) and the layer.
HostAttention(seed, layer, rows, res) ==
  [rows |-> rows, res |-> res,
   d |-> [r \in 0 .. (rows - 1) |-> [p \in PixIdx |-> [n \in WordIdx |->
            RInt((seed * (r + 1) + layer + 2 * p + 3 * n + r * n) % 5)]]]]

\* --------------------------------------------------------- region keys
KeyOrder == <<"down_cross", "mid_cross", "up_cross", "down_self", "mid_self", "up_self">>
Keys == {KeyOrder[i] : i \in 1 .. Len(KeyOrder)}

\* f"{place_in_unet}_{'cross' if is_cross else 'self'}"
KeyOf(place_in_unet, is_cross) ==
  place_in_unet \o "_" \o (IF is_cross THEN "cross" ELSE "self")

get_empty_store == [k \in Keys |-> <<>>]

\* The empty dict {} that attention_store holds before the first merge.
EmptyDict == [k \in {} |-> <<>>]

\* ------------------------------------------------- program constants
\* AttentionStore.forward keeps maps of at most 32 x 32 query positions (stable).
StoreSideStable == 32
\* AttentionStore.forward keeps maps of at most 16 x 16 query positions (ldm).
StoreSideLdm == 16
\* replace_self_attention replaces maps of at most 16 x 16 query positions.
SelfReplaceSide == 16

\* ------------------------------------------------ edit controllers
\* The constructor arguments of the sample edit controllers.  A float
\* self_replace_steps x stands for the window (0, x).  Samples 4 and 5 are
\* windows no caller should ask for: start after end, a fraction above 1.
SelfReplaceStepsOf(timing) ==
  CASE timing = 1 -> [is_float |-> TRUE, lo |-> R0, hi |-> RHalf]
    [] timing = 2 -> [is_float |-> FALSE, lo |-> RHalf, hi |-> R1]
    [] timing = 4 -> [is_float |-> FALSE, lo |-> R1, hi |-> RHalf]
    [] timing = 5 -> [is_float |-> TRUE, lo |-> R0, hi |-> Rat(3, 2)]
    [] OTHER -> [is_float |-> TRUE, lo |-> R0, hi |-> R1]

\* ptp_utils.get_time_words_attention_alpha: one value in [0, 1] per timestep
\* (0 .. num_steps), edited prompt and token position.
CrossReplaceAlphaOf(timing, num_steps, nprompts) ==
  [t \in 0 .. num_steps |-> [b \in 0 .. (nprompts - 2) |-> [n \in WordIdx |->
     CASE timing = 1 -> R1
       [] timing = 2 -> IF t = 0 \/ n = 0 THEN R1 ELSE R0
       [] OTHER -> Rat((n + b + t) % 3, 2)]]]

\* seq_aligner.get_replacement_mapper: a (w, n) matrix per edited prompt.
ReplacementMapperOf(m, nprompts) ==
  [b \in 0 .. (nprompts - 2) |-> [w \in WordIdx |-> [n \in WordIdx |->
     IF m = 1
     THEN (IF n = (w + b + 1) % NumWords THEN R1 ELSE R0)
     ELSE IF b = 0
          THEN (IF n = w THEN R1 ELSE R0)
          ELSE (IF n = w \/ n = (w + 1) % NumWords THEN RHalf ELSE R0)]]]

\* seq_aligner.get_refinement_mapper: the aligned source position of every
\* target position (-1 where there is none) and the 0/1 blend weight alpha.
RefinementMapperOf(m, nprompts) ==
  [b \in 0 .. (nprompts - 2) |-> [n \in WordIdx |->
     IF m = 1
     THEN (IF n = NumWords - 1 THEN -1 ELSE (n + 1 + b) % NumWords)
     ELSE n]]

RefinementAlphasOf(m, nprompts) ==
  [b \in 0 .. (nprompts - 2) |-> [n \in WordIdx |->
     IF m = 1
     THEN (IF n = NumWords - 1 THEN R0 ELSE R1)
     ELSE RInt((n + b) % 2)]]

\* The equalizer handed to AttentionReweight: one row per edited prompt, or
\* (samples 3 and 4) one row per prompt and a single row.
EqualizerOf(m, nprompts) ==
  [b \in 0 .. (IF m = 3 THEN nprompts - 1 ELSE IF m = 4 THEN 0 ELSE nprompts - 2) |->
   [n \in WordIdx |->
     IF m = 1
     THEN (IF n = 1 THEN RInt(b + 2) ELSE R1)
     ELSE (IF n = 0 THEN RHalf ELSE IF n = 1 THEN RInt(0 - 2 - b) ELSE R1)]]

EditKinds == {"Replace", "Refine", "Reweight"}

\* AttentionControlEdit.__init__ and the subclasses' __init__: the fields of an
\* edit controller (args keeps the constructor's arguments).  prev is the kind of AttentionReweight's prev_controller
\* ("None", "Replace" or "Refine"); its mapper and alphas are kept in the same
\* record.
AttentionControlEdit_init(kind, prev, nprompts, num_steps, cross_replace_alpha, self_replace_steps, m) ==
  LET srs == IF self_replace_steps.is_float
             THEN <<R0, self_replace_steps.hi>>
             ELSE <<self_replace_steps.lo, self_replace_steps.hi>>
  IN  [kind |-> kind,
       args |-> [num_steps |-> num_steps, self_replace_steps |-> self_replace_steps],
       batch_size |-> nprompts,
       cross_replace_alpha |-> cross_replace_alpha,
       num_self_replace |-> <<PyInt(RMul(RInt(num_steps), srs[1])),
                              PyInt(RMul(RInt(num_steps), srs[2]))>>,
       mapper |-> IF kind = "Replace" \/ prev = "Replace"
                  THEN ReplacementMapperOf(m, nprompts) ELSE <<>>,
       index_map |-> IF kind = "Refine" \/ prev = "Refine"
                     THEN RefinementMapperOf(m, nprompts) ELSE <<>>,
       alphas |-> IF kind = "Refine" \/ prev = "Refine"
                  THEN RefinementAlphasOf(m, nprompts) ELSE <<>>,
       equalizer |-> IF kind = "Reweight" THEN EqualizerOf(m, nprompts) ELSE <<>>,
       prev_controller |-> prev,
       local_blend |-> "None"]

\* EmptyControl() and AttentionStore(): no fields beyond the counters.
PlainController(kind) ==
  [kind |-> kind, args |-> <<>>, batch_size |-> 0, cross_replace_alpha |-> <<>>,
   num_self_replace |-> <<0, 0>>, mapper |-> <<>>, index_map |-> <<>>,
   alphas |-> <<>>, equalizer |-> <<>>, prev_controller |-> "None",
   local_blend |-> "None"]

\* An edit controller constructed with local_blend=LocalBlend(...).
WithLocalBlend(c) == [c EXCEPT !.local_blend = "LocalBlend"]

\* Python indexing with a possibly negative index along the token axis.
PyIndex(i) == IF i < 0 THEN i + NumWords ELSE i

\* Mutant: the mapper is applied transposed ('hpw,bnw->bhpn').
RECURSIVE EinsumTermTransposed(_, _, _, _)
EinsumTermTransposed(baserow, mapper_b, n, upto) ==
  IF upto < 0 THEN R0
  ELSE RAdd(EinsumTermTransposed(baserow, mapper_b, n, upto - 1),
            RMul(baserow[upto], mapper_b[n][upto]))

\* sum over w of attn_base[hh, p, w] * mapper[b, w, n], w running up to `upto`.
RECURSIVE EinsumTerm(_, _, _, _)
EinsumTerm(baserow, mapper_b, n, upto) ==
  IF upto < 0 THEN R0
  ELSE RAdd(EinsumTerm(baserow, mapper_b, n, upto - 1),
            RMul(baserow[upto], mapper_b[upto][n]))

\* AttentionReplace.replace_cross_attention:
\* torch.einsum('hpw,bwn->bhpn', attn_base, self.mapper); the result's rows are
\* the (b, h) pairs, b-major.
Replace_replace_cross_attention(c, attn_base, att_replace) ==
  LET h == attn_base.rows
  IN  [rows |-> att_replace.rows, res |-> att_replace.res,
       d |-> [r \in RowIdx(att_replace) |-> [p \in PixIdx |-> [n \in WordIdx |->
                EinsumTerm(attn_base.d[r % h][p], c.mapper[r \div h], n,
                           NumWords - 1)]]]]

\* Mutant: alpha weights the edited row's own attention.
RefineSwappedAlpha(c, attn_base, att_replace) ==
  [rows |-> att_replace.rows, res |-> att_replace.res,
   d |-> [r \in RowIdx(att_replace) |-> [p \in PixIdx |-> [n \in WordIdx |->
            LET b == r \div attn_base.rows
                a == c.alphas[b][n]
            IN  RAdd(RMul(attn_base.d[r % attn_base.rows][p][PyIndex(c.index_map[b][n])],
                          RSub(R1, a)),
                     RMul(att_replace.d[r][p][n], a))]]]]

\* AttentionRefine.replace_cross_attention:
\* attn_base[:, :, self.mapper].permute(2, 0, 1, 3) * alphas + att_replace * (1 - alphas)
Refine_replace_cross_attention(c, attn_base, att_replace) ==
  LET h == attn_base.rows
  IN  [rows |-> att_replace.rows, res |-> att_replace.res,
       d |-> [r \in RowIdx(att_replace) |-> [p \in PixIdx |-> [n \in WordIdx |->
                LET b == r \div h
                    a == c.alphas[b][n]
                IN  RAdd(RMul(attn_base.d[r % h][p][PyIndex(c.index_map[b][n])], a),
                         RMul(att_replace.d[r][p][n], RSub(R1, a)))]]]]

\* attn_base[None, :, :, :] of the source row: one copy per equalizer row.
ExpandBase(attn_base, att_replace) ==
  [rows |-> att_replace.rows, res |-> att_replace.res,
   d |-> [r \in RowIdx(att_replace) |-> attn_base.d[r % attn_base.rows]]]

\* equalizer[:, None, None, :] against (batch_size - 1) edited prompts: the
\* product and the assignment attn[1:] = ... are accepted when the equalizer
\* has one row per edited prompt or a single row, which is then used for all.
EqualizerRows(c) == Cardinality(DOMAIN c.equalizer)
EqualizerAccepted(c) ==
  EqualizerRows(c) = c.batch_size - 1 \/ EqualizerRows(c) = 1
EqualizerRow(c, b) == IF EqualizerRows(c) = 1 THEN 0 ELSE b

\* Mutant: the wrapped controller is ignored.
ReweightIgnoringPrev(c, attn_base, att_replace) ==
  [rows |-> att_replace.rows, res |-> att_replace.res,
   d |-> [r \in RowIdx(att_replace) |-> [p \in PixIdx |-> [n \in WordIdx |->
            RMul(attn_base.d[r % attn_base.rows][p][n],
                 c.equalizer[EqualizerRow(c, r \div attn_base.rows)][n])]]]]

\* AttentionReweight.replace_cross_attention: the wrapped controller's
\* candidate (or the source row) times equalizer[:, None, None, :].
Reweight_replace_cross_attention(c, attn_base, att_replace) ==
  LET h == attn_base.rows
      base == CASE c.prev_controller = "Replace" ->
                     Replace_replace_cross_attention(c, attn_base, att_replace)
                [] c.prev_controller = "Refine" ->
                     Refine_replace_cross_attention(c, attn_base, att_replace)
                [] OTHER -> ExpandBase(attn_base, att_replace)
  IN  [rows |-> att_replace.rows, res |-> att_replace.res,
       d |-> [r \in RowIdx(att_replace) |-> [p \in PixIdx |-> [n \in WordIdx |->
                RMul(base.d[r][p][n], c.equalizer[EqualizerRow(c, r \div h)][n])]]]]

\* replace_cross_attention, dispatched on the controller's class.
replace_cross_attention(c, attn_base, att_replace) ==
  CASE c.kind = "Replace" -> Replace_replace_cross_attention(c, attn_base, att_replace)
    [] c.kind = "Refine" -> Refine_replace_cross_attention(c, attn_base, att_replace)
    [] OTHER -> Reweight_replace_cross_attention(c, attn_base, att_replace)

\* AttentionControlEdit.replace_self_attention: att_replace.shape[2] is the
\* number of query positions.
replace_self_attention(attn_base, att_replace) ==
  IF att_replace.res <= SelfReplaceSide * SelfReplaceSide
  THEN [rows |-> att_replace.rows, res |-> att_replace.res,
        d |-> [r \in RowIdx(att_replace) |-> attn_base.d[r % attn_base.rows]]]
  ELSE att_replace

\* Mutant: the schedule weights the edited row's own attention.
BlendCrossSwapped(cand, alpha_words, attn_repalce, h) ==
  [rows |-> attn_repalce.rows, res |-> attn_repalce.res,
   d |-> [r \in RowIdx(attn_repalce) |-> [p \in PixIdx |-> [n \in WordIdx |->
            LET a == alpha_words[r \div h][n]
            IN  RAdd(RMul(cand.d[r][p][n], RSub(R1, a)),
                     RMul(a, attn_repalce.d[r][p][n]))]]]]

\* replace_cross_attention(...) * alpha_words + (1 - alpha_words) * attn_repalce
BlendCross(cand, alpha_words, attn_repalce, h) ==
  [rows |-> attn_repalce.rows, res |-> attn_repalce.res,
   d |-> [r \in RowIdx(attn_repalce) |-> [p \in PixIdx |-> [n \in WordIdx |->
            LET a == alpha_words[r \div h][n]
            IN  RAdd(RMul(cand.d[r][p][n], a),
                     RMul(RSub(R1, a), attn_repalce.d[r][p][n]))]]]]

\* Mutant: the self-replace window includes its end step.
EditAppliesInclusive(c, is_cross, step) ==
  is_cross \/ (c.num_self_replace[1] <= step /\ step <= c.num_self_replace[2])

\* The test of AttentionControlEdit.forward that decides whether it rewrites.
EditApplies(c, is_cross, step) ==
  is_cross \/ (c.num_self_replace[1] <= step /\ step < c.num_self_replace[2])

\* The candidate AttentionControlEdit.forward obtains from
\* replace_cross_attention on a cross-attention call (NoTensor otherwise).
EditCandidate(c, attn, is_cross, step) ==
  IF is_cross
  THEN LET h == attn.rows \div c.batch_size
       IN  replace_cross_attention(c, SliceTo(attn, h), SliceFrom(attn, h))
  ELSE NoTensor

\* Mutant: the rewrite also overwrites the source prompt's rows, with the rows
\* of the first edited prompt as received.
AttentionControlEdit_rewriteAll(c, attn, is_cross, step) ==
  IF EditApplies(c, is_cross, step)
  THEN LET h == attn.rows \div c.batch_size
           attn_base == SliceTo(attn, h)
           attn_repalce == SliceFrom(attn, h)
           w == IF is_cross
                THEN AssignFrom(attn, h,
                       BlendCross(EditCandidate(c, attn, is_cross, step),
                                  c.cross_replace_alpha[step], attn_repalce, h))
                ELSE AssignFrom(attn, h, replace_self_attention(attn_base, attn_repalce))
       IN  [rows |-> attn.rows, res |-> attn.res,
            d |-> [r \in RowIdx(attn) |-> IF r < h THEN attn.d[r + h] ELSE w.d[r]]]
  ELSE attn

\* AttentionControlEdit.forward after the store has recorded: the tensor it
\* returns, which is the received tensor's storage written in place.
AttentionControlEdit_rewrite(c, attn, is_cross, step) ==
  IF EditApplies(c, is_cross, step)
  THEN LET h == attn.rows \div c.batch_size
           attn_base == SliceTo(attn, h)
           attn_repalce == SliceFrom(attn, h)
       IN  IF is_cross
           THEN AssignFrom(attn, h,
                  BlendCross(EditCandidate(c, attn, is_cross, step),
                             c.cross_replace_alpha[step], attn_repalce, h))
           ELSE AssignFrom(attn, h, replace_self_attention(attn_base, attn_repalce))
  ELSE attn

\* ---------------------------------------------------------------- state
VARIABLES
  variant,            \* "stable" or "ldm": which of the two source files runs
  LOW_RESOURCE,       \* the module-level flag of the stable variant
  layers,             \* the host network's attention layers, in call order
  num_inference_steps,\* the timesteps the driver runs in a session
  nprompts,           \* len(prompts)
  controller,         \* the controller's class and constructor-set fields
  cur_step,
  cur_att_layer,
  num_att_layers,
  step_store,
  attention_store,
  calls,              \* hook calls the driver has made in this session
  seed,               \* the latent of the current timestep (decides the maps)
  err,                \* "none", or the exception that ended the session
  hist,               \* the scratch store as it was at each end-of-step merge
  last,               \* the last operation, with what it received and returned
  average_attention,  \* what the last get_average_attention() returned
  fresh,              \* the fields of a newly constructed controller run on the same calls
  callback,           \* the step_callback calls made, and what the last one did
  equalizer_args,     \* the arguments of a get_equalizer call
  equalizer_ret,      \* what get_equalizer made of them, per variant
  blend_args,         \* the arguments of a LocalBlend call
  blend_ret           \* what LocalBlend.__call__ made of them

envVars == <<variant, LOW_RESOURCE, layers, num_inference_steps, nprompts, controller>>
ctlVars == <<cur_step, cur_att_layer, num_att_layers, step_store, attention_store>>
drvVars == <<calls, seed, err, hist>>
sessionVars ==
  <<envVars, ctlVars, drvVars, last, average_attention, fresh, callback>>
pureVars == <<equalizer_args, equalizer_ret, blend_args, blend_ret>>
vars == <<sessionVars, pureVars>>

Layer(is_cross, place, res, heads) ==
  [is_cross |-> is_cross, place_in_unet |-> place, res |-> res, heads |-> heads]

\* Sample layer orders of the host network (a fixed, repeatable order per step).
Topologies ==
  { <<Layer(TRUE, "down", 256, 2), Layer(FALSE, "down", 256, 2)>>,
    <<Layer(FALSE, "mid", 64, 1), Layer(TRUE, "up", 1024, 1)>>,
    <<Layer(TRUE, "up", 256, 1), Layer(TRUE, "up", 64, 1), Layer(FALSE, "up", 4096, 1)>> }

\* Pairs (timing, mapping) of the sample edit controllers.
Variations == {<<1, 1>>, <<2, 2>>, <<3, 1>>}

\* (kind, timing, mapping) of the sample controllers constructed with a
\* self-replace window or an equalizer that does not fit.
Misconfigured ==
  {<<"Replace", 4, 1>>, <<"Refine", 5, 1>>, <<"Reweight", 1, 3>>, <<"Reweight", 2, 4>>}

\* (kind, prev, timing, mapping) of the sample controllers with a local blend.
Blended ==
  {<<"Replace", "None", 1, 1>>, <<"Refine", "None", 2, 2>>,
   <<"Reweight", "Replace", 3, 1>>}

\* The controllers a session can be run with.
Controllers(np, num_steps) ==
  {PlainController("Empty"), PlainController("Store")}
  \cup { AttentionControlEdit_init(kp[1], kp[2], np, num_steps,
             CrossReplaceAlphaOf(v[1], num_steps, np), SelfReplaceStepsOf(v[1]), v[2]) :
           kp \in {<<"Replace", "None">>, <<"Refine", "None">>, <<"Reweight", "None">>,
                   <<"Reweight", "Replace">>, <<"Reweight", "Refine">>},
           v \in Variations }
  \cup { AttentionControlEdit_init(x[1], "None", np, num_steps,
             CrossReplaceAlphaOf(x[2], num_steps, np), SelfReplaceStepsOf(x[2]), x[3]) :
           x \in Misconfigured }
  \cup { WithLocalBlend(AttentionControlEdit_init(x[1], x[2], np, num_steps,
             CrossReplaceAlphaOf(x[3], num_steps, np), SelfReplaceStepsOf(x[3]), x[4])) :
           x \in Blended }

NoOp(op) ==
  [op |-> op, pos |-> 0, step |-> 0, layer |-> 0, forwarded |-> FALSE,
   merged |-> FALSE, ret |-> NoTensor]

\* The mutable fields of a controller as __init__ leaves them.
FreshCtl ==
  [cur_step |-> 0, cur_att_layer |-> 0,
   step_store |-> get_empty_store, attention_store |-> EmptyDict]

\* No step_callback call made yet in the session.
NoCallback ==
  [count |-> 0, x_t |-> 0, blended |-> FALSE, passed |-> EmptyDict, ret |-> 0]

\* No call of get_equalizer or LocalBlend is being followed.
NoCall == [state |-> "none"]
NoPureCall ==
  /\ equalizer_args = NoCall
  /\ equalizer_ret = [stable |-> NoCall, ldm |-> NoCall]
  /\ blend_args = NoCall
  /\ blend_ret = NoCall

\* AttentionControl.__init__ / AttentionStore.__init__, for every sample
\* environment and controller.
Init ==
  /\ variant \in {"stable", "ldm"}
  /\ LOW_RESOURCE \in (IF variant = "stable" THEN BOOLEAN ELSE {FALSE})
  /\ layers \in Topologies
  /\ num_inference_steps \in 1 .. MaxSteps
  /\ nprompts \in 2 .. 3
  /\ controller \in Controllers(nprompts, num_inference_steps)
  /\ cur_step = 0
  /\ num_att_layers = -1
  /\ cur_att_layer = 0
  /\ step_store = get_empty_store
  /\ attention_store = EmptyDict
  /\ calls = 0
  /\ seed = 1
  /\ err = "none"
  /\ hist = <<>>
  /\ last = NoOp("init")
  /\ average_attention = EmptyDict
  /\ fresh = FreshCtl
  /\ callback = NoCallback
  /\ NoPureCall

IsStore(c) == c.kind # "Empty"
IsEdit(c) == c.kind \in EditKinds

\* Mutant: the low-resource test is inverted.
UncondLayersInverted == IF LOW_RESOURCE THEN 0 ELSE num_att_layers

\* @property num_uncond_att_layers (stable); the ldm variant has none.
num_uncond_att_layers == IF LOW_RESOURCE THEN num_att_layers ELSE 0

\* Hook calls the driver makes per timestep: one pass over the layers, two
\* (unconditional, then conditional) in low-resource mode.
CallsPerStep == Len(layers) * (IF LOW_RESOURCE THEN 2 ELSE 1)

StoreThreshold ==
  IF variant = "stable" THEN StoreSideStable * StoreSideStable
  ELSE StoreSideLdm * StoreSideLdm

\* What a stored entry holds once the hook call is over.  forward() appends
\* the tensor object it received, a view of the host tensor, and the later
\* in-place writes of the same call (attn[1:] = ..., attn[h // 2:] = ...) go
\* to the same storage.
StoredView(received, written) == written

\* AttentionStore.forward: record the map unless it is too fine.
AttentionStore_forward(store, entry, key) ==
  IF entry.res <= StoreThreshold
  THEN [store EXCEPT ![key] = Append(@, entry)]
  ELSE store

\* Mutant: the transform reads the schedule of the timestep after the
\* current one.
forwardNextStep(c, store, attn, is_cross, place_in_unet, step) ==
  LET raises == IsEdit(c) /\ is_cross /\ c.kind = "Reweight" /\ ~EqualizerAccepted(c)
      out == IF raises THEN attn
             ELSE IF IsEdit(c) THEN AttentionControlEdit_rewrite(c, attn, is_cross, step + 1)
             ELSE attn
  IN  [err |-> IF raises THEN "RuntimeError" ELSE "none",
       out |-> out,
       store |-> IF IsStore(c)
                 THEN AttentionStore_forward(store, StoredView(attn, out),
                                             KeyOf(place_in_unet, is_cross))
                 ELSE store,
       cand |-> IF IsEdit(c) /\ EditApplies(c, is_cross, step + 1) /\ ~raises
                THEN EditCandidate(c, attn, is_cross, step + 1) ELSE NoTensor]

\* forward() of the controller's class on the tensor `attn`.  The store
\* records first; AttentionReweight then raises on a cross-attention map when
\* its equalizer does not fit the batch.
forward(c, store, attn, is_cross, place_in_unet, step) ==
  LET raises == IsEdit(c) /\ is_cross /\ c.kind = "Reweight" /\ ~EqualizerAccepted(c)
      out == IF raises THEN attn
             ELSE IF IsEdit(c) THEN AttentionControlEdit_rewrite(c, attn, is_cross, step)
             ELSE attn
  IN  [err |-> IF raises THEN "RuntimeError" ELSE "none",
       out |-> out,
       store |-> IF IsStore(c)
                 THEN AttentionStore_forward(store, StoredView(attn, out),
                                             KeyOf(place_in_unet, is_cross))
                 ELSE store,
       cand |-> IF IsEdit(c) /\ EditApplies(c, is_cross, step) /\ ~raises
                THEN EditCandidate(c, attn, is_cross, step) ELSE NoTensor]

\* The first position of the accumulated sequence that `+=` cannot serve
\* (no scratch entry: IndexError; another shape: RuntimeError); 0 if none.
FailIdx(acc_k, scr_k) ==
  LET bad == {i \in 1 .. Len(acc_k) : i > Len(scr_k) \/ ~SameShape(acc_k[i], scr_k[i])}
  IN  IF bad = {} THEN 0 ELSE CHOOSE i \in bad : \A j \in bad : i <= j

\* Mutant: the merge assigns the timestep's tensor instead of adding it.
MergeKeyAssign(acc_k, scr_k, stop) ==
  [i \in 1 .. Len(acc_k) |-> IF i < stop THEN scr_k[i] ELSE acc_k[i]]

\* attention_store[key][i] += step_store[key][i] for i below `stop`.
MergeKey(acc_k, scr_k, stop) ==
  [i \in 1 .. Len(acc_k) |-> IF i < stop THEN TAdd(acc_k[i], scr_k[i]) ELSE acc_k[i]]

KeyPos(k) == CHOOSE j \in 1 .. Len(KeyOrder) : KeyOrder[j] = k

\* AttentionStore.between_steps.
between_steps(acc, scr) ==
  IF DOMAIN acc = {}
  THEN [attention_store |-> scr, step_store |-> get_empty_store, err |-> "none"]
  ELSE LET failing == {j \in 1 .. Len(KeyOrder) : FailIdx(acc[KeyOrder[j]], scr[KeyOrder[j]]) # 0}
           first == IF failing = {} THEN Len(KeyOrder) + 1
                    ELSE CHOOSE j \in failing : \A i \in failing : j <= i
           merged == [k \in Keys |->
                        IF KeyPos(k) < first THEN MergeKey(acc[k], scr[k], Len(acc[k]) + 1)
                        ELSE IF KeyPos(k) = first
                             THEN MergeKey(acc[k], scr[k], FailIdx(acc[k], scr[k]))
                             ELSE acc[k]]
       IN  IF failing = {}
           THEN [attention_store |-> merged, step_store |-> get_empty_store, err |-> "none"]
           ELSE [attention_store |-> merged, step_store |-> scr,
                 err |-> IF FailIdx(acc[KeyOrder[first]], scr[KeyOrder[first]])
                            > Len(scr[KeyOrder[first]])
                         THEN "IndexError" ELSE "RuntimeError"]

\* The controller's mutable fields, as one value.
Ctl ==
  [cur_step |-> cur_step, cur_att_layer |-> cur_att_layer,
   step_store |-> step_store, attention_store |-> attention_store]

\* Mutant: forward() also runs on the calls of the unconditional pass.
CallForwardUnskipped(st, c, attn, is_cross, place_in_unet) ==
  IF LOW_RESOURCE
  THEN forward(c, st.step_store, attn, is_cross, place_in_unet, st.cur_step)
  ELSE forward(c, st.step_store, SliceFrom(attn, attn.rows \div 2), is_cross,
               place_in_unet, st.cur_step)

\* AttentionControl.__call__ on a controller whose fields are `st`, first
\* half: the skip test and the call of forward() on the whole tensor
\* (low-resource mode) or on its second half.
CallForwardOn(st, c, attn, is_cross, place_in_unet) ==
  IF st.cur_att_layer >= num_uncond_att_layers
  THEN IF LOW_RESOURCE
       THEN forward(c, st.step_store, attn, is_cross, place_in_unet, st.cur_step)
       ELSE forward(c, st.step_store, SliceFrom(attn, attn.rows \div 2), is_cross,
                    place_in_unet, st.cur_step)
  ELSE [err |-> "none", out |-> NoTensor, store |-> st.step_store, cand |-> NoTensor]

\* Mutant: the result of forward() is written to the first half of the tensor.
CallOnFirstHalf(st, c, attn, f) ==
  LET forwarded == st.cur_att_layer >= num_uncond_att_layers
      half == attn.rows \div 2
      ret == IF ~forwarded THEN attn
             ELSE IF LOW_RESOURCE THEN f.out
             ELSE [rows |-> attn.rows, res |-> attn.res,
                   d |-> [r \in RowIdx(attn) |->
                            IF r < half THEN f.out.d[r] ELSE attn.d[r]]]
      wraps == st.cur_att_layer + 1 = num_att_layers + num_uncond_att_layers
      scr == IF f.err = "none" /\ wraps /\ IsStore(c)
             THEN get_empty_store ELSE f.store
  IN  [ret |-> IF f.err = "none" THEN ret ELSE NoTensor,
       forwarded |-> forwarded, merged |-> f.err = "none" /\ wraps,
       cur_att_layer |-> IF f.err # "none" THEN st.cur_att_layer
                         ELSE IF wraps THEN 0 ELSE st.cur_att_layer + 1,
       cur_step |-> IF f.err = "none" /\ wraps THEN st.cur_step + 1 ELSE st.cur_step,
       step_store |-> scr,
       attention_store |-> IF f.err = "none" /\ wraps /\ IsStore(c)
                           THEN between_steps(st.attention_store, f.store).attention_store
                           ELSE st.attention_store,
       err |-> f.err]

\* AttentionControl.__call__, second half: the write-back of forward()'s result
\* `f`, the counters and the end-of-step hook; an exception of forward()
\* leaves the call before any of them.
CallOn(st, c, attn, f) ==
  LET forwarded == st.cur_att_layer >= num_uncond_att_layers
      ret == IF ~forwarded THEN attn
             ELSE IF LOW_RESOURCE THEN f.out
             ELSE AssignFrom(attn, attn.rows \div 2, f.out)
      wraps == st.cur_att_layer + 1 = num_att_layers + num_uncond_att_layers
  IN  IF f.err # "none"
      THEN [ret |-> NoTensor, forwarded |-> forwarded, merged |-> FALSE,
            cur_att_layer |-> st.cur_att_layer, cur_step |-> st.cur_step,
            step_store |-> f.store, attention_store |-> st.attention_store,
            err |-> f.err]
      ELSE IF wraps
      THEN LET bs == IF IsStore(c) THEN between_steps(st.attention_store, f.store)
                     ELSE [attention_store |-> st.attention_store,
                           step_store |-> f.store, err |-> "none"]
           IN  [ret |-> ret, forwarded |-> forwarded, merged |-> TRUE,
                cur_att_layer |-> 0, cur_step |-> st.cur_step + 1,
                step_store |-> bs.step_store,
                attention_store |-> bs.attention_store, err |-> bs.err]
      ELSE [ret |-> ret, forwarded |-> forwarded, merged |-> FALSE,
            cur_att_layer |-> st.cur_att_layer + 1, cur_step |-> st.cur_step,
            step_store |-> f.store, attention_store |-> st.attention_store,
            err |-> "none"]

\* The two halves on the controller of the session.
CallForward(c, attn, is_cross, place_in_unet) ==
  CallForwardOn(Ctl, c, attn, is_cross, place_in_unet)
Call(c, attn, f) == CallOn(Ctl, c, attn, f)

\* ptp_utils.register_attention_control: the driver counts the host network's
\* attention layers and stores the count in the controller.
Register ==
  /\ num_att_layers = -1
  /\ num_att_layers' = Len(layers)
  /\ last' = NoOp("register")
  /\ UNCHANGED <<envVars, cur_step, cur_att_layer, step_store, attention_store,
                 drvVars, average_attention, fresh, callback, pureVars>>

\* Leading size of the tensor the host hands to the hook for `layer`:
\* [unconditional rows; conditional rows], or one of the two in low-resource mode.
HostRows(layer) == (IF LOW_RESOURCE THEN 1 ELSE 2) * nprompts * layer.heads

\* The layer that makes the pos-th hook call of a timestep.
LayerAt(pos) == layers[(pos % Len(layers)) + 1]

\* The controller fields a call leaves behind.
Fields(r) ==
  [cur_step |-> r.cur_step, cur_att_layer |-> r.cur_att_layer,
   step_store |-> r.step_store, attention_store |-> r.attention_store]

\* One attention layer of the host network calls the hook.  The driver makes
\* the calls of a timestep after the step_callback of the one before.
Hook ==
  /\ num_att_layers # -1
  /\ err = "none"
  /\ calls < num_inference_steps * CallsPerStep
  /\ callback.count = calls \div CallsPerStep
  /\ \E s \in Seeds :
       /\ (calls % CallsPerStep # 0) => s = seed
       /\ LET pos == calls % CallsPerStep
              layer == LayerAt(pos)
              attn == HostAttention(s, pos, HostRows(layer), layer.res)
          IN  \E f \in {CallForward(controller, attn, layer.is_cross, layer.place_in_unet)} :
              \E r \in {Call(controller, attn, f)} :
                /\ seed' = s
                /\ fresh' = IF fresh = Ctl THEN Fields(r)
                            ELSE Fields(CallOn(fresh, controller, attn,
                                   CallForwardOn(fresh, controller, attn,
                                     layer.is_cross, layer.place_in_unet)))
                /\ cur_att_layer' = r.cur_att_layer
                /\ cur_step' = r.cur_step
                /\ step_store' = r.step_store
                /\ attention_store' = r.attention_store
                /\ err' = r.err
                /\ hist' = IF r.merged /\ IsStore(controller)
                           THEN Append(hist, f.store) ELSE hist
                /\ last' = [op |-> "hook", pos |-> pos, step |-> cur_step,
                            layer |-> cur_att_layer, forwarded |-> r.forwarded,
                            merged |-> r.merged,
                            ret |-> IF r.err = "none" THEN r.ret ELSE NoTensor]
  /\ calls' = calls + 1
  /\ average_attention' = EmptyDict
  /\ UNCHANGED <<envVars, num_att_layers, callback, pureVars>>

\* Mutant: the average divides by one step too many.
AverageOffByOne(acc, step) ==
  [key \in DOMAIN acc |-> [i \in 1 .. Len(acc[key]) |-> TDivScalar(acc[key][i], step + 1)]]

\* AttentionStore.get_average_attention.
get_average_attention(acc, step) ==
  [key \in DOMAIN acc |-> [i \in 1 .. Len(acc[key]) |-> TDivScalar(acc[key][i], step)]]

GetAverage ==
  /\ IsStore(controller)
  /\ last.op # "average"
  /\ average_attention' = get_average_attention(attention_store, cur_step)
  /\ last' = NoOp("average")
  /\ UNCHANGED <<envVars, ctlVars, drvVars, fresh, callback, pureVars>>

\* Mutant: AttentionStore.reset is not called, the stores are kept.
ResetCountersOnly(st) ==
  [cur_step |-> 0, cur_att_layer |-> 0,
   step_store |-> st.step_store, attention_store |-> st.attention_store]

\* AttentionControl.reset and, for a store, AttentionStore.reset.
reset(st) ==
  [cur_step |-> 0, cur_att_layer |-> 0,
   step_store |-> get_empty_store, attention_store |-> EmptyDict]

\* reset(), after which the driver starts a new session; `fresh` restarts
\* as a newly constructed controller.
Reset ==
  /\ calls > 0
  /\ \E r \in {reset(Ctl)} :
       /\ cur_step' = r.cur_step
       /\ cur_att_layer' = r.cur_att_layer
       /\ step_store' = r.step_store
       /\ attention_store' = r.attention_store
  /\ fresh' = FreshCtl
  /\ callback' = NoCallback
  /\ calls' = 0
  /\ seed' = 1
  /\ err' = "none"
  /\ hist' = <<>>
  /\ last' = [NoOp("reset") EXCEPT !.step = cur_step, !.layer = cur_att_layer]
  /\ average_attention' = EmptyDict
  /\ UNCHANGED <<envVars, num_att_layers, pureVars>>

\* Mutant: the local blend is handed the averaged maps.
step_callbackAveraged(c, x_t, acc, step) ==
  IF IsEdit(c) /\ c.local_blend # "None"
  THEN [x_t |-> x_t, blended |-> TRUE, passed |-> get_average_attention(acc, step),
        ret |-> x_t]
  ELSE [x_t |-> x_t, blended |-> FALSE, passed |-> EmptyDict, ret |-> x_t]

\* step_callback(x_t): AttentionControlEdit hands the latent and
\* self.attention_store to its local blend (ret is then the latent the blend
\* makes of x_t and `passed`); every other controller returns x_t.
step_callback(c, x_t, acc, step) ==
  IF IsEdit(c) /\ c.local_blend # "None"
  THEN [x_t |-> x_t, blended |-> TRUE, passed |-> acc, ret |-> x_t]
  ELSE [x_t |-> x_t, blended |-> FALSE, passed |-> EmptyDict, ret |-> x_t]

\* The driver calls step_callback on the latent of the timestep, once all
\* the hook calls of the timestep are made.
StepCallback ==
  /\ num_att_layers # -1
  /\ err = "none"
  /\ calls > 0
  /\ calls % CallsPerStep = 0
  /\ callback.count < calls \div CallsPerStep
  /\ \E r \in {step_callback(controller, seed, attention_store, cur_step)} :
       callback' = [count |-> callback.count + 1, x_t |-> r.x_t,
                    blended |-> r.blended, passed |-> r.passed, ret |-> r.ret]
  /\ last' = NoOp("step_callback")
  /\ UNCHANGED <<envVars, ctlVars, drvVars, average_attention, fresh, pureVars>>

Next == Register \/ Hook \/ GetAverage \/ Reset \/ StepCallback

Spec == Init /\ [][Next]_vars

\* ------------------------------------------------------------ properties
\* The tensor the last hook call received, the part of it handed to forward()
\* (the conditional half, or all of it in low-resource mode) and the same part
\* of the returned tensor.
LastLayer == LayerAt(last.pos)
Received == HostAttention(seed, last.pos, HostRows(LastLayer), LastLayer.res)
SliceStart == IF LOW_RESOURCE THEN 0 ELSE Received.rows \div 2
ReceivedSlice == SliceFrom(Received, SliceStart)
ReturnedSlice == SliceFrom(last.ret, SliceStart)
\* Rows per prompt in the slice, and the rows of the edited prompts.
HeadsPerPrompt == ReceivedSlice.rows \div nprompts
EditedRows == HeadsPerPrompt .. (ReceivedSlice.rows - 1)
PromptOf(r) == (r \div HeadsPerPrompt) - 1
\* The last operation was a hook call that ran forward() of an edit controller.
EditHook(is_cross) ==
  /\ last.op = "hook" /\ last.forwarded /\ err = "none"
  /\ IsEdit(controller) /\ LastLayer.is_cross = is_cross

\* C1: in a session of num_steps timesteps with P hook calls each, cur_step is
\* the number of completed timesteps after every call, never exceeds
\* num_steps, and after the last of the num_steps x P calls cur_step =
\* num_steps and cur_att_layer = 0.
C1_StepCounter ==
  (num_att_layers # -1 /\ err = "none") =>
    /\ calls <= num_inference_steps * CallsPerStep
    /\ cur_step = calls \div CallsPerStep
    /\ cur_att_layer = calls % CallsPerStep
    /\ cur_step <= num_inference_steps
    /\ (calls = num_inference_steps * CallsPerStep) =>
         (cur_step = num_inference_steps /\ cur_att_layer = 0)

C1_Witness ==
  /\ LOW_RESOURCE /\ num_inference_steps = MaxSteps /\ Len(layers) > 1
  /\ calls = num_inference_steps * CallsPerStep
  /\ cur_step = num_inference_steps

\* The sum of the tensors recorded at (key, i) in timesteps 1 .. k, first to last.
RECURSIVE SumFirstToLast(_, _, _)
SumFirstToLast(key, i, k) ==
  IF k = 1 THEN hist[1][key][i]
  ELSE TAdd(SumFirstToLast(key, i, k - 1), hist[k][key][i])

\* The same sum taken from the last timestep back to timestep k.
RECURSIVE SumLastToFirst(_, _, _)
SumLastToFirst(key, i, k) ==
  IF k = Len(hist) THEN hist[k][key][i]
  ELSE TAdd(SumLastToFirst(key, i, k + 1), hist[k][key][i])

C3_Average ==
  [][ (last'.op = "average") =>
        /\ DOMAIN average_attention' = DOMAIN attention_store
        /\ \A key \in DOMAIN attention_store :
             /\ Len(average_attention'[key]) = Len(attention_store[key])
             /\ \A i \in 1 .. Len(attention_store[key]) :
                  /\ SameShape(average_attention'[key][i], attention_store[key][i])
                  /\ \A r \in RowIdx(attention_store[key][i]) : \A p \in PixIdx :
                     \A n \in WordIdx :
                       RMul(average_attention'[key][i].d[r][p][n], RInt(cur_step))
                         = attention_store[key][i].d[r][p][n]
        /\ UNCHANGED <<attention_store, step_store, cur_step, cur_att_layer>> ]_vars

C3_Witness ==
  /\ last.op = "average" /\ cur_step = 2
  /\ \E key \in DOMAIN average_attention :
       /\ Len(average_attention[key]) > 0
       /\ average_attention[key][1] # attention_store[key][1]

\* C4: on a cross-attention hook call of an edit controller at timestep t every
\* edited row returns s x candidate + (1 - s) x own at every token, s being the
\* schedule value of t, the row's prompt and the token: the candidate for
\* s = 1, the received attention for s = 0, a value between them otherwise.
C4_CrossBlend ==
  EditHook(TRUE) =>
    LET cand == EditCandidate(controller, ReceivedSlice, TRUE, last.step)
    IN  \A r \in EditedRows : \A p \in PixIdx : \A n \in WordIdx :
          LET s == controller.cross_replace_alpha[last.step][PromptOf(r)][n]
              c == cand.d[r - HeadsPerPrompt][p][n]
              own == ReceivedSlice.d[r][p][n]
              got == ReturnedSlice.d[r][p][n]
          IN  /\ got = RAdd(RMul(s, c), RMul(RSub(R1, s), own))
              /\ (s = R1) => got = c
              /\ (s = R0) => got = own
              /\ (RLe(R0, s) /\ RLe(s, R1)) =>
                   \/ RLe(c, got) /\ RLe(got, own)
                   \/ RLe(own, got) /\ RLe(got, c)

C4_Witness ==
  /\ EditHook(TRUE)
  /\ \E r \in EditedRows : \E p \in PixIdx : \E n \in WordIdx :
       /\ controller.cross_replace_alpha[last.step][PromptOf(r)][n] = RHalf
       /\ ReturnedSlice.d[r][p][n] # ReceivedSlice.d[r][p][n]
       /\ ReturnedSlice.d[r][p][n]
            # EditCandidate(controller, ReceivedSlice, TRUE, last.step).d[r - HeadsPerPrompt][p][n]

\* The self-replace window [int(num_steps x start), int(num_steps x end)) of
\* the controller's constructor arguments (a float x is the window (0, x)).
WindowStart ==
  IF controller.args.self_replace_steps.is_float THEN 0
  ELSE (controller.args.num_steps * controller.args.self_replace_steps.lo[1])
         \div controller.args.self_replace_steps.lo[2]
WindowEnd ==
  (controller.args.num_steps * controller.args.self_replace_steps.hi[1])
    \div controller.args.self_replace_steps.hi[2]

\* C5: on a self-attention hook call of an edit controller, inside the
\* self-replace window and at no more than 16 x 16 query positions every edited
\* row returned equals the source row; in every other case the tensor is
\* returned as received.
C5_SelfReplace ==
  EditHook(FALSE) =>
    IF WindowStart <= last.step /\ last.step < WindowEnd /\ LastLayer.res <= 16 * 16
    THEN /\ \A r \in EditedRows :
              ReturnedSlice.d[r] = ReceivedSlice.d[r % HeadsPerPrompt]
         /\ \A r \in RowIdx(Received) :
              (r < SliceStart + HeadsPerPrompt) => last.ret.d[r] = Received.d[r]
    ELSE last.ret = Received

C5_Witness ==
  /\ EditHook(FALSE)
  /\ WindowStart <= last.step /\ last.step < WindowEnd /\ LastLayer.res = 16 * 16
  /\ last.step = 1
  /\ last.ret # Received

\* The source prompt's rows and the edited prompts' rows of the received slice,
\* as forward() hands them to replace_cross_attention.
SourceRows == SliceTo(ReceivedSlice, HeadsPerPrompt)
OwnRows == SliceFrom(ReceivedSlice, HeadsPerPrompt)
CandRows == RowIdx(OwnRows)

\* C8: AttentionReweight.replace_cross_attention returns base[b,h,p,n] x
\* equalizer[b,n] for every edited row, head, pixel and token, base being the
\* wrapped controller's replace_cross_attention output, or the source row when
\* no controller is wrapped (the equalizer having one row per edited prompt).
C8_Reweight ==
  (EditHook(TRUE) /\ controller.kind = "Reweight"
     /\ EqualizerRows(controller) = controller.batch_size - 1) =>
    LET cand == replace_cross_attention(controller, SourceRows, OwnRows)
        wrapped == CASE controller.prev_controller = "Replace" ->
                          Replace_replace_cross_attention(controller, SourceRows, OwnRows)
                     [] controller.prev_controller = "Refine" ->
                          Refine_replace_cross_attention(controller, SourceRows, OwnRows)
                     [] OTHER -> NoTensor
    IN  /\ cand.rows = OwnRows.rows
        /\ \A r \in CandRows : \A p \in PixIdx : \A n \in WordIdx :
             LET b == r \div HeadsPerPrompt
                 hh == r % HeadsPerPrompt
                 base == IF controller.prev_controller = "None"
                         THEN SourceRows.d[hh][p][n] ELSE wrapped.d[r][p][n]
             IN  cand.d[r][p][n] = RMul(base, controller.equalizer[b][n])

C8_Witness ==
  /\ EditHook(TRUE) /\ controller.kind = "Reweight"
  /\ controller.prev_controller = "Replace"
  /\ nprompts = 3 /\ HeadsPerPrompt = 2
  /\ \E r \in CandRows : \E p \in PixIdx :
       /\ r \div HeadsPerPrompt = 1
       /\ replace_cross_attention(controller, SourceRows, OwnRows).d[r][p][1]
            # SourceRows.d[r % HeadsPerPrompt][p][1]

\* The sum over the source tokens in W of src[w] x mapper_b[w][n].
RECURSIVE SumOverTokens(_, _, _, _)
SumOverTokens(W, src, mapper_b, n) ==
  IF W = {} THEN R0
  ELSE LET w == CHOOSE x \in W : TRUE
       IN  RAdd(RMul(src[w], mapper_b[w][n]), SumOverTokens(W \ {w}, src, mapper_b, n))

\* mapper_b is a 0/1 permutation matrix.
IsPermutation(mapper_b) ==
  /\ \A w \in WordIdx : \A n \in WordIdx : mapper_b[w][n] \in {R0, R1}
  /\ \A w \in WordIdx : Cardinality({n \in WordIdx : mapper_b[w][n] = R1}) = 1
  /\ \A n \in WordIdx : Cardinality({w \in WordIdx : mapper_b[w][n] = R1}) = 1

UsesReplace == controller.kind = "Replace" \/ controller.prev_controller = "Replace"

\* C9: AttentionReplace.replace_cross_attention returns the sum over source
\* tokens w of source[h,p,w] x mapper[b,w,n]; under a permutation mapper
\* sending i to j the candidate at j is the source attention at i, and under
\* the identity mapper the candidate is the source row.
C9_Replace ==
  (EditHook(TRUE) /\ UsesReplace) =>
    LET cand == Replace_replace_cross_attention(controller, SourceRows, OwnRows)
    IN  \A r \in CandRows : \A p \in PixIdx :
          LET b == r \div HeadsPerPrompt
              src == SourceRows.d[r % HeadsPerPrompt][p]
          IN  /\ \A n \in WordIdx :
                   cand.d[r][p][n] = SumOverTokens(WordIdx, src, controller.mapper[b], n)
              /\ IsPermutation(controller.mapper[b]) =>
                   \A i \in WordIdx : \A j \in WordIdx :
                     (controller.mapper[b][i][j] = R1) => cand.d[r][p][j] = src[i]
              /\ (\A i \in WordIdx : \A j \in WordIdx :
                    controller.mapper[b][i][j] = (IF i = j THEN R1 ELSE R0))
                   => cand.d[r][p] = src

C9_Witness ==
  /\ EditHook(TRUE) /\ controller.kind = "Replace"
  /\ \E r \in CandRows : \E p \in PixIdx :
       LET b == r \div HeadsPerPrompt
           src == SourceRows.d[r % HeadsPerPrompt][p]
       IN  /\ IsPermutation(controller.mapper[b])
           /\ controller.mapper[b][0][1] = R1
           /\ src[0] # src[1]
           /\ src[1] # src[2]
           /\ ReturnedSlice.d[r + HeadsPerPrompt][p][1] = src[0]

\* C10: AttentionRefine.replace_cross_attention returns alpha[b,n] x (source
\* attention at the aligned position index_map[b,n]) + (1 - alpha[b,n]) x (the
\* edited row's own attention at n); where alpha = 0 the hook returns the
\* edited row's received attention for every schedule value.
C10_Refine ==
  (EditHook(TRUE) /\ (controller.kind = "Refine" \/ controller.prev_controller = "Refine")) =>
    LET cand == Refine_replace_cross_attention(controller, SourceRows, OwnRows)
    IN  \A r \in CandRows : \A p \in PixIdx : \A n \in WordIdx :
          LET b == r \div HeadsPerPrompt
              a == controller.alphas[b][n]
              own == OwnRows.d[r][p][n]
          IN  /\ (a = R0) => cand.d[r][p][n] = own
              /\ (a # R0) =>
                   cand.d[r][p][n] =
                     RAdd(RMul(a, SourceRows.d[r % HeadsPerPrompt][p][controller.index_map[b][n]]),
                          RMul(RSub(R1, a), own))
              /\ (a = R0 /\ controller.kind = "Refine") =>
                   ReturnedSlice.d[r + HeadsPerPrompt][p][n] = own

C10_Witness ==
  /\ EditHook(TRUE) /\ controller.kind = "Refine"
  /\ \E r \in CandRows : \E p \in PixIdx : \E n \in WordIdx :
       LET b == r \div HeadsPerPrompt
       IN  /\ controller.alphas[b][n] = R0
           /\ controller.cross_replace_alpha[last.step][b][n] = RHalf
           /\ ReturnedSlice.d[r + HeadsPerPrompt][p][n] = OwnRows.d[r][p][n]
           /\ SourceRows.d[r % HeadsPerPrompt][p][PyIndex(controller.index_map[b][n])]
                # OwnRows.d[r][p][n]
           /\ \E n2 \in WordIdx :
                /\ controller.alphas[b][n2] = R1
                /\ ReturnedSlice.d[r + HeadsPerPrompt][p][n2] # OwnRows.d[r][p][n2]

\* ------------------------------------------------------------ get_equalizer
\* No controller session runs while a pure function is followed.
SessionIdle ==
  /\ LOW_RESOURCE = FALSE
  /\ layers = <<>>
  /\ num_inference_steps = 1
  /\ nprompts = 2
  /\ controller = PlainController("Empty")
  /\ cur_step = 0
  /\ num_att_layers = -1
  /\ cur_att_layer = 0
  /\ step_store = get_empty_store
  /\ attention_store = EmptyDict
  /\ calls = 0
  /\ seed = 1
  /\ err = "none"
  /\ hist = <<>>
  /\ last = NoOp("init")
  /\ average_attention = EmptyDict
  /\ fresh = FreshCtl
  /\ callback = NoCallback

MaxValues == 2      \* longest `values` argument followed
MaxSelect == 2      \* most selected words followed

\* What ptp_utils.get_word_inds can return for one word: an array of distinct
\* token positions in ascending order, empty when the word is not in the text.
IndsSamples ==
  {s \in UNION {[1 .. k -> WordIdx] : k \in 0 .. NumWords} :
     \A i \in 1 .. Len(s) : \A j \in 1 .. Len(s) : i < j => s[i] < s[j]}

ValuesSamples == UNION {[1 .. k -> {RInt(2), RHalf}] : k \in 1 .. MaxValues}

\* word_select as passed: one bare word (int or str), or a tuple of words.
\* A word is written as the positions get_word_inds resolves it to.
WordSelectSamples ==
  {[single |-> TRUE, words |-> <<w>>] : w \in IndsSamples}
    \cup {[single |-> FALSE, words |-> ws] :
            ws \in UNION {[1 .. k -> IndsSamples] : k \in 1 .. MaxSelect}}

\* torch.ones(len(values), 77)
Ones(rows) == [r \in 0 .. (rows - 1) |-> [i \in WordIdx |-> R1]]

\* The position of i in inds (0 when absent).
IndexIn(inds, i) ==
  IF \E k \in 1 .. Len(inds) : inds[k] = i
  THEN CHOOSE k \in 1 .. Len(inds) : inds[k] = i
  ELSE 0

\* Whether `equalizer[:, inds] = values` is accepted: values, of shape (V,),
\* must broadcast to the indexed shape (V, K), so V = 1 or V = K.  With K = 0
\* nothing is written, and `strict` says whether the shapes are compared
\* all the same.
IndexPutAccepted(inds, values, strict) ==
  \/ Len(values) = 1
  \/ Len(values) = Len(inds)
  \/ (Len(inds) = 0 /\ ~strict)

\* equalizer[:, inds] = values  (stable, line 261): the value written to
\* column inds[k] of every row is values[k], or values[0] when V = 1.
IndexPut(equalizer, inds, values) ==
  [r \in DOMAIN equalizer |->
     [i \in WordIdx |->
        IF IndexIn(inds, i) = 0 THEN equalizer[r][i]
        ELSE IF Len(values) = 1 THEN values[1]
        ELSE values[IndexIn(inds, i)]]]

\* for i in inds: equalizer[:, i] = values  (ldm, lines 238-239): values, of
\* shape (V,), fills column i, one value per row.
ColumnPut(equalizer, inds, values) ==
  [r \in DOMAIN equalizer |->
     [i \in WordIdx |->
        IF IndexIn(inds, i) = 0 THEN equalizer[r][i] ELSE values[r + 1]]]

RECURSIVE EqualizerLoopStable(_, _, _, _, _)
EqualizerLoopStable(equalizer, words, values, strict, w) ==
  IF w > Len(words) THEN [state |-> "ok", equalizer |-> equalizer]
  ELSE IF ~IndexPutAccepted(words[w], values, strict)
  THEN [state |-> "RuntimeError", equalizer |-> equalizer]
  ELSE EqualizerLoopStable(IndexPut(equalizer, words[w], values), words,
                           values, strict, w + 1)

RECURSIVE EqualizerLoopLdm(_, _, _, _)
EqualizerLoopLdm(equalizer, words, values, w) ==
  IF w > Len(words) THEN [state |-> "ok", equalizer |-> equalizer]
  ELSE EqualizerLoopLdm(ColumnPut(equalizer, words[w], values), words,
                        values, w + 1)

\* get_equalizer of the stable driver.
get_equalizer_stable(word_select, values, strict) ==
  EqualizerLoopStable(Ones(Len(values)), word_select.words, values, strict, 1)

\* get_equalizer of the ldm driver.
get_equalizer_ldm(word_select, values) ==
  EqualizerLoopLdm(Ones(Len(values)), word_select.words, values, 1)

InitEqualizer ==
  /\ variant = "stable"
  /\ SessionIdle
  /\ equalizer_args \in
       {[state |-> "args", word_select |-> ws, values |-> vs] :
          ws \in WordSelectSamples, vs \in ValuesSamples}
  /\ equalizer_ret = [stable |-> NoCall, ldm |-> NoCall]
  /\ blend_args = NoCall
  /\ blend_ret = NoCall

GetEqualizerStable ==
  /\ equalizer_args.state = "args"
  /\ equalizer_ret.stable.state = "none"
  /\ \E strict \in BOOLEAN :
       equalizer_ret' =
         [equalizer_ret EXCEPT
            !.stable = get_equalizer_stable(equalizer_args.word_select,
                                            equalizer_args.values, strict)]
  /\ UNCHANGED <<sessionVars, equalizer_args, blend_args, blend_ret>>

GetEqualizerLdm ==
  /\ equalizer_args.state = "args"
  /\ equalizer_ret.ldm.state = "none"
  /\ equalizer_ret' =
       [equalizer_ret EXCEPT
          !.ldm = get_equalizer_ldm(equalizer_args.word_select,
                                    equalizer_args.values)]
  /\ UNCHANGED <<sessionVars, equalizer_args, blend_args, blend_ret>>

NextEqualizer == GetEqualizerStable \/ GetEqualizerLdm

SpecEqualizer == InitEqualizer /\ [][NextEqualizer]_vars

\* The positions resolved for any selected word of the call.
ResolvedPositions ==
  {i \in WordIdx :
     \E w \in 1 .. Len(equalizer_args.word_select.words) :
       IndexIn(equalizer_args.word_select.words[w], i) # 0}

\* The matrix the call is expected to return.
ExpectedEqualizer ==
  [r \in 0 .. (Len(equalizer_args.values) - 1) |->
     [i \in WordIdx |->
        IF i \in ResolvedPositions THEN equalizer_args.values[r + 1] ELSE R1]]

\* C7: get_equalizer returns a len(values) x 77 matrix with values[r] at
\* [r, i] for every resolved position i of a selected word and 1 elsewhere,
\* for any number of values and of resolved positions, and both variants
\* return the same matrix.
C7_Equalizer ==
  /\ \A v \in {"stable", "ldm"} :
       equalizer_ret[v].state # "none" =>
         /\ equalizer_ret[v].state = "ok"
         /\ equalizer_ret[v].equalizer = ExpectedEqualizer
  /\ (equalizer_ret.stable.state # "none" /\ equalizer_ret.ldm.state # "none")
       => equalizer_ret.stable = equalizer_ret.ldm

\* C7, the ldm part alone: the column loop writes values[r] into row r.
C7_EqualizerLdm ==
  equalizer_ret.ldm.state # "none" =>
    /\ equalizer_ret.ldm.state = "ok"
    /\ equalizer_ret.ldm.equalizer = ExpectedEqualizer

\* C7, what the stable driver does instead: it returns only when V = 1 or
\* every word resolves to V positions, and then column inds[k] holds values[k].
C7_EqualizerStable ==
  equalizer_ret.stable.state = "ok" =>
    \A w \in 1 .. Len(equalizer_args.word_select.words) :
      \/ Len(equalizer_args.values) = 1
      \/ Len(equalizer_args.word_select.words[w]) = Len(equalizer_args.values)
      \/ Len(equalizer_args.word_select.words[w]) = 0

\* Two values, one word at one position: the stable driver raises.
C7_StableRaises ==
  /\ Len(equalizer_args.values) = 2
  /\ equalizer_args.word_select.words = <<(<<1>>)>>
  /\ equalizer_ret.stable.state = "RuntimeError"
  /\ equalizer_ret.ldm.state = "ok"

\* Two different values, one word at two positions: the stable driver returns
\* a matrix whose columns, not rows, carry the values.
C7_StableTransposed ==
  /\ equalizer_args.values = <<RInt(2), RHalf>>
  /\ equalizer_args.word_select.words = <<(<<0, 1>>)>>
  /\ equalizer_ret.stable.state = "ok"
  /\ equalizer_ret.stable.equalizer[0][1] = RHalf
  /\ equalizer_ret.ldm.state = "ok"
  /\ equalizer_ret.ldm.equalizer[0][1] = RInt(2)

\* ------------------------------------------------------------ LocalBlend
\* Side of the attention maps LocalBlend reads; stands for the 16 of
\* reshape(..., 16, 16, MAX_NUM_WORDS).
MapSide == 3
\* Channels of a latent; stands for the 4 of the latent diffusion models.
NumChannels == 2

GridIdx(side) == 0 .. (side - 1)
ChanIdx == 0 .. (NumChannels - 1)

\* Float values outside the rationals: 0/0 is NaN, x/0 is an infinity.
NaN == <<0, 0>>
FDiv(a, b) ==
  IF b[1] # 0 THEN RDiv(a, b)
  ELSE IF a[1] = 0 THEN NaN
  ELSE <<(IF a[1] > 0 THEN 1 ELSE -1), 0>>
\* a.gt(th): False for NaN.
FGt(a, th) == IF a[2] = 0 THEN a[1] > 0 ELSE RLt(th, a)

RMaxOf(S) == CHOOSE v \in S : \A u \in S : RLe(u, v)

\* seq[lo:hi] of a Python list.
PySlice(s, lo, hi) == SubSeq(s, lo + 1, IF hi < Len(s) THEN hi ELSE Len(s))

\* LocalBlend.__init__: alpha_layers[i, n] = 1 at every position that
\* get_word_inds resolves for a tracked word of prompt i.
LocalBlend_init(words, threshold) ==
  [alpha_layers |->
     [i \in 0 .. (Len(words) - 1) |-> [n \in WordIdx |->
        IF \E w \in 1 .. Len(words[i + 1]) : IndexIn(words[i + 1][w], n) # 0
        THEN R1 ELSE R0]],
   threshold |-> threshold]

\* The accumulated cross-attention the store holds: sample contents.
MapValue(kind, m, r, p, n, res) ==
  CASE kind = 0 -> 0
    [] kind = 1 -> 1
    [] kind = 2 -> IF p = (n + 4 * (r % 2)) % res THEN 3 ELSE 0
    [] OTHER -> (p + 2 * n + r + m) % 4

MapItem(kind, m, rows, res) ==
  [rows |-> rows, res |-> res,
   d |-> [r \in 0 .. (rows - 1) |-> [p \in 0 .. (res - 1) |-> [n \in WordIdx |->
            RInt(MapValue(kind, m, r, p, n, res))]]]]

\* Query positions of the stored cross-attention maps, in the order the host
\* network calls its layers: the maps LocalBlend picks are the 16 x 16 ones.
OtherRes(v) ==
  IF v = "stable" THEN (2 * MapSide) * (2 * MapSide)
  ELSE (MapSide - 1) * (MapSide - 1)
DownRes(v) ==
  IF v = "stable"
  THEN <<OtherRes(v), OtherRes(v), MapSide * MapSide, MapSide * MapSide>>
  ELSE <<MapSide * MapSide, MapSide * MapSide, OtherRes(v), OtherRes(v)>>
UpRes(v) ==
  IF v = "stable"
  THEN <<MapSide * MapSide, MapSide * MapSide, MapSide * MapSide,
         OtherRes(v), OtherRes(v), OtherRes(v)>>
  ELSE <<OtherRes(v), OtherRes(v), OtherRes(v),
         MapSide * MapSide, MapSide * MapSide, MapSide * MapSide>>

BlendStore(v, kind, rows) ==
  [k \in Keys |->
     CASE k = "down_cross" ->
            [j \in 1 .. Len(DownRes(v)) |-> MapItem(kind, j - 1, rows, DownRes(v)[j])]
       [] k = "up_cross" ->
            [j \in 1 .. Len(UpRes(v)) |->
               MapItem(kind, Len(DownRes(v)) + j - 1, rows, UpRes(v)[j])]
       [] OTHER -> <<>>]

\* The latents handed to LocalBlend: sample contents.
Latent(kind, rows, side) ==
  [i \in 0 .. (rows - 1) |-> [c \in ChanIdx |-> [y \in GridIdx(side) |->
     [x \in GridIdx(side) |->
        RInt(((kind + 2 * i + c + 3 * y + 5 * x + i * x) % 7) - 3)]]]]

\* maps = attention_store[...][a:b] + attention_store[...][c:d]
SelectedMaps(v, store) ==
  IF v = "stable"
  THEN PySlice(store["down_cross"], 2, 4) \o PySlice(store["up_cross"], 0, 3)
  ELSE PySlice(store["down_cross"], 0, 2) \o PySlice(store["up_cross"], 3, 6)

\* item.reshape(N, -1, 1, 16, 16, MAX_NUM_WORDS): accepted when the element
\* count divides; the inferred axis is the heads axis.
ReshapeAccepted(item, n) == (item.rows * item.res) % (n * MapSide * MapSide) = 0
ReshapedHeads(item, n) == (item.rows * item.res) \div (n * MapSide * MapSide)
ReshapedAt(item, n, i, j, y, x, w) ==
  LET flat == ((i * ReshapedHeads(item, n) + j) * MapSide + y) * MapSide + x
  IN  item.d[flat \div item.res][flat % item.res][w]

\* (maps * alpha_layers).sum(-1) at one head j of one map, from token w on.
RECURSIVE TokenSum(_, _, _, _, _, _, _, _)
TokenSum(item, alpha, n, i, j, y, x, w) ==
  IF w = NumWords THEN R0
  ELSE RAdd(RMul(ReshapedAt(item, n, i, j, y, x, w), alpha[i][w]),
            TokenSum(item, alpha, n, i, j, y, x, w + 1))

\* The sum over the heads of one map, from head j on.
RECURSIVE HeadSum(_, _, _, _, _, _, _)
HeadSum(item, alpha, n, i, y, x, j) ==
  IF j = ReshapedHeads(item, n) THEN R0
  ELSE RAdd(TokenSum(item, alpha, n, i, j, y, x, 0),
            HeadSum(item, alpha, n, i, y, x, j + 1))

\* The sum over the concatenated heads axis, from map m on.
RECURSIVE CatSum(_, _, _, _, _, _, _)
CatSum(maps, alpha, n, i, y, x, m) ==
  IF m > Len(maps) THEN R0
  ELSE RAdd(HeadSum(maps[m], alpha, n, i, y, x, 0),
            CatSum(maps, alpha, n, i, y, x, m + 1))

\* The size of the concatenated heads axis, from map m on.
RECURSIVE CatHeads(_, _, _)
CatHeads(maps, n, m) ==
  IF m > Len(maps) THEN 0
  ELSE ReshapedHeads(maps[m], n) + CatHeads(maps, n, m + 1)

\* torch.cat(maps, dim=1); (maps * alpha_layers).sum(-1).mean(1)
Saliency(maps, alpha_layers, n) ==
  [i \in 0 .. (n - 1) |-> [y \in GridIdx(MapSide) |-> [x \in GridIdx(MapSide) |->
     RDiv(CatSum(maps, alpha_layers, n, i, y, x, 1),
          RInt(CatHeads(maps, n, 1)))]]]

\* nnf.max_pool2d(maps, (3, 3), (1, 1), padding=(1, 1))
MaxPool(maps) ==
  [i \in DOMAIN maps |-> [y \in GridIdx(MapSide) |-> [x \in GridIdx(MapSide) |->
     RMaxOf({maps[i][yy][xx] :
               yy \in GridIdx(MapSide) \cap ((y - 1) .. (y + 1)),
               xx \in GridIdx(MapSide) \cap ((x - 1) .. (x + 1))})]]]

\* nnf.interpolate(input, size=(side, side)), mode nearest.
Interpolate(input, side) ==
  [i \in DOMAIN input |-> [y \in GridIdx(side) |-> [x \in GridIdx(side) |->
     input[i][(y * MapSide) \div side][(x * MapSide) \div side]]]]

\* mask.max(2, keepdims=True)[0].max(3, keepdims=True)[0]
SpatialMax(mask, side) ==
  [i \in DOMAIN mask |->
     RMaxOf({mask[i][y][x] : y \in GridIdx(side), x \in GridIdx(side)})]

\* (mask / max).gt(threshold)
Thresholded(mask, max, threshold, side) ==
  [i \in DOMAIN mask |-> [y \in GridIdx(side) |-> [x \in GridIdx(side) |->
     FGt(FDiv(mask[i][y][x], max[i]), threshold)]]]

\* (mask[:1] + mask[1:]).float() in the stable driver,
\* (mask[:1] + mask).float() in the ldm driver: bool + bool is the union.
UnionMask(v, mask, n, side) ==
  [i \in 0 .. (IF v = "stable" THEN n - 2 ELSE n - 1) |->
     [y \in GridIdx(side) |-> [x \in GridIdx(side) |->
        IF mask[0][y][x] \/ mask[IF v = "stable" THEN i + 1 ELSE i][y][x]
        THEN R1 ELSE R0]]]

\* Rows of a batch.
Rows(t) == Cardinality(DOMAIN t)

\* mask * (x_t - x_t[:1]) broadcasts along the batch axis when the sizes are
\* equal or one of them is 1; the result has the larger size (none when the
\* other is empty).
BlendAccepted(mask, x_t) ==
  Rows(mask) = Rows(x_t) \/ Rows(mask) = 1 \/ Rows(x_t) = 1
BlendRows(mask, x_t) == IF Rows(x_t) = 1 THEN DOMAIN mask ELSE DOMAIN x_t
BroadcastRow(t, i) == IF Rows(t) = 1 THEN 0 ELSE i

\* Mutant: the mask is applied to the source side.
BlendInverted(mask, x_t, side) ==
  [i \in BlendRows(mask, x_t) |-> [c \in ChanIdx |-> [y \in GridIdx(side) |->
     [x \in GridIdx(side) |->
        RAdd(x_t[BroadcastRow(x_t, i)][c][y][x],
             RMul(mask[BroadcastRow(mask, i)][y][x],
                  RSub(x_t[0][c][y][x], x_t[BroadcastRow(x_t, i)][c][y][x])))]]]]

\* Mutant: the parentheses are lost, x_t[:1] + mask * x_t - x_t[:1].
BlendUnparenthesized(mask, x_t, side) ==
  [i \in BlendRows(mask, x_t) |-> [c \in ChanIdx |-> [y \in GridIdx(side) |->
     [x \in GridIdx(side) |->
        RSub(RAdd(x_t[0][c][y][x],
                  RMul(mask[BroadcastRow(mask, i)][y][x],
                       x_t[BroadcastRow(x_t, i)][c][y][x])),
             x_t[0][c][y][x])]]]]

\* x_t[:1] + mask * (x_t - x_t[:1])
Blend(mask, x_t, side) ==
  [i \in BlendRows(mask, x_t) |-> [c \in ChanIdx |-> [y \in GridIdx(side) |->
     [x \in GridIdx(side) |->
        RAdd(x_t[0][c][y][x],
             RMul(mask[BroadcastRow(mask, i)][y][x],
                  RSub(x_t[BroadcastRow(x_t, i)][c][y][x], x_t[0][c][y][x])))]]]]

\* What LocalBlend.__call__ leaves behind: the stages of the mask and the
\* returned latent, or the error it raised.
BlendRaised(what) ==
  [state |-> what, saliency |-> <<>>, pooled |-> <<>>, thresholded |-> <<>>,
   mask |-> <<>>, x_t |-> <<>>]

\* The tracked words of the n prompts, each word as the positions it resolves
\* to (none when the word is not in the prompt): every prompt tracks one
\* word; the source tracks a missing word and the others two words; only the
\* source tracks a word that resolves; no word resolves.
WordsSamples(n) ==
  {[i \in 1 .. n |-> <<(<<(i - 1) % NumWords>>)>>],
   [i \in 1 .. n |-> IF i = 1 THEN <<(<<>>)>> ELSE <<(<<1>>), (<<0, 2>>)>>],
   [i \in 1 .. n |-> IF i = 1 THEN <<(<<0>>)>> ELSE <<(<<>>)>>],
   [i \in 1 .. n |-> <<(<<>>)>>]}

MaxBatch == 3       \* most prompts of a blended batch
MapKinds == 0 .. 3  \* the sample store contents, see MapValue
LatentKinds == {1, 2}

\* The latent side is a multiple of the map side (64 = 4 x 16 in the stable
\* driver).
LatentSide(args) == args.scale * MapSide

InitBlend ==
  /\ variant \in {"stable", "ldm"}
  /\ SessionIdle
  /\ equalizer_args = NoCall
  /\ equalizer_ret = [stable |-> NoCall, ldm |-> NoCall]
  /\ blend_args \in
       {[state |-> "args", words |-> ws, threshold |-> th, maps |-> k,
         heads |-> h, scale |-> sc, latent |-> l] :
          ws \in UNION {WordsSamples(n) : n \in 2 .. MaxBatch},
          th \in {Rat(3, 10), R1}, k \in MapKinds, h \in {1, 2},
          sc \in {1, 2}, l \in LatentKinds}
  /\ blend_ret = NoCall

\* LocalBlend(prompts, words, threshold)(x_t, attention_store)
LocalBlendCall ==
  /\ blend_args.state = "args"
  /\ blend_ret.state = "none"
  /\ \E lb \in {LocalBlend_init(blend_args.words, blend_args.threshold)} :
     \E n \in {Len(blend_args.words)} :
     \E side \in {LatentSide(blend_args)} :
     \E x_t \in {Latent(blend_args.latent, n, side)} :
     \E maps \in {SelectedMaps(variant,
                   BlendStore(variant, blend_args.maps, n * blend_args.heads))} :
       IF Len(maps) = 0 \/ \E m \in 1 .. Len(maps) : ~ReshapeAccepted(maps[m], n)
       THEN blend_ret' = BlendRaised("RuntimeError")
       ELSE
         \E saliency \in {Saliency(maps, lb.alpha_layers, n)} :
         \E pooled \in {MaxPool(saliency)} :
         \E resized \in {Interpolate(IF variant = "stable" THEN pooled
                                     ELSE saliency, side)} :
         \E max \in {SpatialMax(resized, side)} :
         \E thresholded \in {Thresholded(resized, max, lb.threshold, side)} :
         \E mask \in {UnionMask(variant, thresholded, n, side)} :
           blend_ret' =
             [state |-> IF BlendAccepted(mask, x_t) THEN "ok" ELSE "RuntimeError",
              saliency |-> saliency, pooled |-> pooled,
              thresholded |-> thresholded, mask |-> mask,
              x_t |-> IF BlendAccepted(mask, x_t) THEN Blend(mask, x_t, side)
                      ELSE <<>>]
  /\ UNCHANGED <<sessionVars, equalizer_args, equalizer_ret, blend_args>>

NextBlend == LocalBlendCall

SpecBlend == InitBlend /\ [][NextBlend]_vars

\* The latent batch the call received and the mask applied to its row i.
BlendInput == Latent(blend_args.latent, Len(blend_args.words), LatentSide(blend_args))
AppliedMask(i) == blend_ret.mask[BroadcastRow(blend_ret.mask, i)]
LatentGrid == GridIdx(LatentSide(blend_args))
MaskIs(i, v) == \A y \in LatentGrid : \A x \in LatentGrid : AppliedMask(i)[y][x] = v

\* C6: whenever LocalBlend returns, every value of the returned batch is the
\* row's own input value where the applied mask is 1 and the source row's
\* value where it is 0; an all-ones mask returns the row unchanged, an
\* all-zero mask returns the source row, and row 0 is returned unchanged.
C6_Blend ==
  blend_ret.state = "ok" =>
    /\ DOMAIN blend_ret.x_t = DOMAIN BlendInput
    /\ \A i \in DOMAIN BlendInput : \A y \in LatentGrid : \A x \in LatentGrid :
         /\ AppliedMask(i)[y][x] \in {R0, R1}
         /\ \A c \in ChanIdx :
              blend_ret.x_t[i][c][y][x] =
                IF AppliedMask(i)[y][x] = R1 THEN BlendInput[i][c][y][x]
                ELSE BlendInput[0][c][y][x]
    /\ \A i \in DOMAIN BlendInput :
         /\ MaskIs(i, R1) => blend_ret.x_t[i] = BlendInput[i]
         /\ MaskIs(i, R0) => blend_ret.x_t[i] = BlendInput[0]
    /\ blend_ret.x_t[0] = BlendInput[0]

\* C6 witness: a returned batch with an edited row whose mask has a 1 and a 0,
\* each at a pixel where the row differs from the source row.
C6_Witness ==
  /\ blend_ret.state = "ok"
  /\ \E i \in DOMAIN BlendInput \ {0} :
       \E y1 \in LatentGrid : \E x1 \in LatentGrid :
       \E y0 \in LatentGrid : \E x0 \in LatentGrid :
         /\ AppliedMask(i)[y1][x1] = R1
         /\ AppliedMask(i)[y0][x0] = R0
         /\ BlendInput[i][0][y1][x1] # BlendInput[0][0][y1][x1]
         /\ BlendInput[i][0][y0][x0] # BlendInput[0][0][y0][x0]

\* The prompts of the blended batch and its edited rows.
BlendBatch == Len(blend_args.words)
BlendEdited == 1 .. (BlendBatch - 1)

\* The mask of edited row i is the union of the thresholded maps of the
\* source row and of row i.
MaskIsUnion(i) ==
  \A y \in LatentGrid : \A x \in LatentGrid :
    (AppliedMask(i)[y][x] = R1) <=>
      (blend_ret.thresholded[0][y][x] \/ blend_ret.thresholded[i][y][x])

\* C11: for every batch of N >= 2 prompts and in both drivers, LocalBlend
\* applies to edited row i the pixelwise OR of the thresholded saliency maps
\* of the source row and of row i.
C11_UnionMask ==
  blend_ret.state # "none" =>
    /\ blend_ret.state = "ok"
    /\ \A i \in BlendEdited : MaskIsUnion(i)

\* C11, the part that holds: whenever the call returns, the applied mask is
\* that union; the ldm driver returns for every batch, the stable driver for
\* two prompts only.
C11_UnionWhenReturned ==
  /\ blend_ret.state = "ok" => \A i \in BlendEdited : MaskIsUnion(i)
  /\ blend_ret.state = "RuntimeError" => (variant = "stable" /\ BlendBatch >= 3)
  /\ (blend_ret.state # "none" /\ variant = "stable" /\ BlendBatch >= 3)
       => blend_ret.state = "RuntimeError"

\* C11: three prompts in the stable driver: the mask has two rows, the latent
\* three, and the blend raises.
C11_StableRaises ==
  /\ variant = "stable"
  /\ BlendBatch = 3
  /\ blend_ret.state = "RuntimeError"
  /\ Rows(blend_ret.mask) = 2

\* The saliency map of batch element i has maximum exactly zero.
ZeroSaliency(i) ==
  RMaxOf({blend_ret.saliency[i][y][x] :
            y \in GridIdx(MapSide), x \in GridIdx(MapSide)}) = R0

\* The thresholded map of element i is uniformly b.
ThresholdedIs(i, b) ==
  \A y \in LatentGrid : \A x \in LatentGrid : blend_ret.thresholded[i][y][x] = b

PooledThresholded ==
  Thresholded(Interpolate(MaxPool(blend_ret.saliency), LatentSide(blend_args)),
              SpatialMax(Interpolate(MaxPool(blend_ret.saliency), LatentSide(blend_args)),
                         LatentSide(blend_args)),
              blend_args.threshold, LatentSide(blend_args))

\* The map pixel a latent pixel is resized from.
MapPixel(y) == (y * MapSide) \div LatentSide(blend_args)

\* Some pixel of the 3x3 neighbourhood of map pixel (y, x) of element i
\* exceeds threshold x maximum.
NeighbourExceeds(i, y, x) ==
  \E yy \in GridIdx(MapSide) \cap ((y - 1) .. (y + 1)) :
  \E xx \in GridIdx(MapSide) \cap ((x - 1) .. (x + 1)) :
    FGt(FDiv(blend_ret.saliency[i][yy][xx],
             RMaxOf({blend_ret.saliency[i][v][u] :
                       v \in GridIdx(MapSide), u \in GridIdx(MapSide)})),
        blend_args.threshold)

\* C17: in both drivers the map that is resized, normalized and thresholded
\* is the 3x3 max-pooled saliency map, so a pixel whose neighbour exceeds
\* threshold x maximum is inside the mask.
C17_PooledMask ==
  blend_ret.state # "none" =>
    /\ blend_ret.thresholded = PooledThresholded
    /\ \A i \in DOMAIN blend_ret.saliency :
         \A y \in LatentGrid : \A x \in LatentGrid :
           NeighbourExceeds(i, MapPixel(y), MapPixel(x))
             => blend_ret.thresholded[i][y][x]

\* C17, the part that holds: the stable driver thresholds the pooled map; the
\* ldm driver thresholds the resized saliency map itself.
C17_PooledStable ==
  blend_ret.state # "none" =>
    IF variant = "stable"
    THEN blend_ret.thresholded = PooledThresholded
    ELSE blend_ret.thresholded =
           Thresholded(Interpolate(blend_ret.saliency, LatentSide(blend_args)),
                       SpatialMax(Interpolate(blend_ret.saliency, LatentSide(blend_args)),
                                  LatentSide(blend_args)),
                       blend_args.threshold, LatentSide(blend_args))

\* C17: a call of the ldm driver in which a pixel next to one that exceeds
\* threshold x maximum is left outside the thresholded map.
C17_LdmUnpooled ==
  /\ variant = "ldm"
  /\ blend_ret.state = "ok"
  /\ \E i \in DOMAIN blend_ret.saliency :
       \E y \in LatentGrid : \E x \in LatentGrid :
         /\ NeighbourExceeds(i, MapPixel(y), MapPixel(x))
         /\ ~blend_ret.thresholded[i][y][x]

\* ------------------------------------------------- session properties
\* C12: a step_callback made after all hook calls of a timestep hands the
\* local blend of an edit controller the accumulator itself, which holds the
\* sum of the maps of every timestep so far, undivided, and is never empty;
\* without a local blend, and for every non-edit controller, the latent is
\* returned unchanged; the counters and the stores are never changed.
C12_StepCallback ==
  [][ (last'.op = "step_callback") =>
        /\ callback'.count = cur_step
        /\ IF IsEdit(controller) /\ controller.local_blend # "None"
           THEN /\ callback'.blended
                /\ Len(hist) = cur_step
                /\ callback'.passed = attention_store
                /\ DOMAIN callback'.passed = Keys
                /\ \A key \in Keys :
                     \A i \in 1 .. Len(callback'.passed[key]) :
                       callback'.passed[key][i] = SumFirstToLast(key, i, Len(hist))
           ELSE /\ ~callback'.blended
                /\ callback'.ret = callback'.x_t
                /\ callback'.x_t = seed
        /\ UNCHANGED <<cur_step, cur_att_layer, num_att_layers, step_store,
                       attention_store>> ]_vars

\* C12 witness: the callback of the second timestep of a controller with a
\* local blend, the accumulator holding a sum of two different maps.
C12_Witness ==
  /\ last.op = "step_callback"
  /\ callback.blended
  /\ callback.count = 2
  /\ \E key \in Keys :
       /\ Len(callback.passed[key]) > 0
       /\ callback.passed[key][1] # hist[2][key][1]
       /\ callback.passed[key][1] # TDivScalar(callback.passed[key][1], 2)

\* The fields reset() leaves behind.
AfterReset ==
  (last.op = "reset") =>
    /\ cur_step = 0
    /\ cur_att_layer = 0
    /\ IsStore(controller) =>
         (/\ DOMAIN step_store = Keys
          /\ \A key \in Keys : step_store[key] = <<>>
          /\ attention_store = EmptyDict)

\* A controller is where a newly constructed one would be after the calls
\* made since its last reset(), and so is the average taken from it.
SameAsFresh ==
  /\ fresh = Ctl
  /\ (last.op = "average") =>
       (average_attention =
          get_average_attention(fresh.attention_store, fresh.cur_step))

\* C13: after reset() the counters are zero, the scratch store holds six
\* empty sequences, the accumulator is empty and the registered layer count
\* is unchanged; from then on the controller goes through the same counters,
\* accumulator and average as a newly constructed one on the same calls.
C13_Reset ==
  /\ [](AfterReset /\ SameAsFresh)
  /\ [][last'.op = "reset" => num_att_layers' = num_att_layers]_vars

\* C13 witness: reset() was called in the middle of the second timestep of a
\* store-based controller and has left it as constructed.
C13_Witness ==
  /\ last.op = "reset"
  /\ last.step = 1 /\ last.layer = 1
  /\ IsStore(controller)
  /\ num_att_layers > 1
  /\ Ctl = FreshCtl

\* The self-replace window as the constructor receives it: both fractions in
\* [0, 1] and the start no later than the end.
WindowValid(c) ==
  LET srs == c.args.self_replace_steps
      lo == IF srs.is_float THEN R0 ELSE srs.lo
  IN  RLe(R0, lo) /\ RLe(lo, srs.hi) /\ RLe(srs.hi, R1)

\* An edit controller whose window is not valid, or an AttentionReweight
\* whose equalizer has not one row per edited prompt.
MisconfiguredController ==
  /\ IsEdit(controller)
  /\ \/ ~WindowValid(controller)
     \/ /\ controller.kind = "Reweight"
        /\ EqualizerRows(controller) # controller.batch_size - 1

\* C14: with a self-replace window outside [0, 1] or reversed, or an
\* equalizer whose rows do not match the edited prompts, no hook call
\* completes and returns a tensor.
C14_ConfigurationError ==
  MisconfiguredController => ~(last.op = "hook" /\ err = "none")

\* What the constructors and the hook do with such configurations: the only
\* error of a hook call of an edit controller is the one of a forwarded
\* cross-attention call of an AttentionReweight whose equalizer broadcasts
\* neither row by row nor from a single row; every other call returns a tensor
\* of the received shape.
C14_RaisesOnlyOnBroadcast ==
  (last.op = "hook" /\ IsEdit(controller)) =>
    /\ (err # "none") <=>
         (/\ controller.kind = "Reweight" /\ ~EqualizerAccepted(controller)
          /\ last.forwarded /\ LastLayer.is_cross)
    /\ (err = "none") => SameShape(last.ret, Received)

\* A whole session has run without an error on a controller with a reversed
\* or out-of-range window, or with a one-row equalizer for two edited prompts.
C14_SilentSession ==
  /\ MisconfiguredController
  /\ \/ ~WindowValid(controller)
     \/ EqualizerRows(controller) = 1
  /\ calls = num_inference_steps * CallsPerStep
  /\ last.op = "hook" /\ err = "none"
  /\ last.ret.rows > 0

\* ------------------------------------------- merges of unequal timesteps
\* Layer calls a host network can make: two maps that are stored, of
\* different sizes, under the same key, one under another key, and one too
\* fine to be stored.
MergeLayers ==
  {Layer(TRUE, "down", 256, 1), Layer(TRUE, "down", 64, 1),
   Layer(FALSE, "up", 256, 1), Layer(TRUE, "down", 4096, 1)}

\* The layers registered with the controller.
MergeDepth == 2

\* An AttentionStore on a host network of MergeDepth layers.
InitMerge ==
  /\ variant \in {"stable", "ldm"}
  /\ LOW_RESOURCE = FALSE
  /\ layers \in [1 .. MergeDepth -> MergeLayers]
  /\ num_inference_steps \in 2 .. MaxSteps
  /\ nprompts = 2
  /\ controller = PlainController("Store")
  /\ cur_step = 0
  /\ num_att_layers = -1
  /\ cur_att_layer = 0
  /\ step_store = get_empty_store
  /\ attention_store = EmptyDict
  /\ calls = 0
  /\ seed = 1
  /\ err = "none"
  /\ hist = <<>>
  /\ last = NoOp("init")
  /\ average_attention = EmptyDict
  /\ fresh = FreshCtl
  /\ callback = NoCallback
  /\ NoPureCall

\* Between two timesteps the caller of __call__ changes the arguments of one
\* of the calls it makes (place_in_unet, is_cross, the size of the map); the
\* number of calls per timestep stays the registered one.
Reconfigure ==
  /\ num_att_layers # -1
  /\ err = "none"
  /\ calls > 0
  /\ calls % CallsPerStep = 0
  /\ calls < num_inference_steps * CallsPerStep
  /\ callback.count = calls \div CallsPerStep
  /\ last.op # "reconfigure"
  /\ \E i \in 1 .. MergeDepth : \E l \in MergeLayers \ {layers[i]} :
       layers' = [layers EXCEPT ![i] = l]
  /\ last' = NoOp("reconfigure")
  /\ UNCHANGED <<variant, LOW_RESOURCE, num_inference_steps, nprompts, controller,
                 ctlVars, drvVars, average_attention, fresh, callback,
                 pureVars>>

NextMerge == Register \/ Hook \/ StepCallback \/ Reconfigure

SpecMerge == InitMerge /\ [][NextMerge]_vars

\* The last operation was a hook call that ended a timestep after the first.
LaterMerge == last.op = "hook" /\ last.merged /\ Len(hist) >= 2

\* The tensors recorded under `key` in the timestep just ended, and in the
\* first one.
RecordedNow(key) == Len(hist[Len(hist)][key])
RecordedFirst(key) == Len(hist[1][key])

\* C15: when a later timestep has recorded another number of tensors under
\* some key than the first timestep, the end-of-step merge signals an error.
C15_MergeSignals ==
  (LaterMerge /\ \E key \in Keys : RecordedNow(key) # RecordedFirst(key)) =>
    err # "none"

\* What between_steps does: it walks the positions of the accumulator.  It
\* raises when a position has no tensor in the scratch store or one of
\* another shape; otherwise it completes, adding the first RecordedFirst(key)
\* tensors of each key and leaving the further ones out.
C15_MergeWalksAccumulator ==
  LaterMerge =>
    /\ (err = "none") <=>
         \A key \in Keys :
           /\ RecordedNow(key) >= RecordedFirst(key)
           /\ \A i \in 1 .. RecordedFirst(key) :
                SameShape(hist[Len(hist)][key][i], hist[1][key][i])
    /\ (err = "IndexError") => \E key \in Keys : RecordedNow(key) < RecordedFirst(key)
    /\ (err = "none") =>
         \A key \in Keys :
           /\ Len(attention_store[key]) = RecordedFirst(key)
           /\ \A i \in 1 .. RecordedFirst(key) :
                attention_store[key][i] = SumFirstToLast(key, i, Len(hist))

\* A merge has completed although the timestep recorded a tensor that is in
\* no accumulator entry.
C15_SilentDrop ==
  /\ LaterMerge
  /\ err = "none"
  /\ \E key \in Keys : RecordedNow(key) > Len(attention_store[key])

\* ------------------------------------------------ the hook call's slices
\* The transform of the controller's class on the tensor `attn` at timestep
\* `step`: the edit controllers rewrite, the others return what they receive.
Transformed(attn, is_cross, step) ==
  IF IsEdit(controller)
  THEN AttentionControlEdit_rewrite(controller, attn, is_cross, step)
  ELSE attn

\* C18: in low-resource mode with L registered layers, the first L hook calls
\* of a timestep return the received tensor and record nothing, the next L
\* return the controller's transform of the whole tensor, and the step counter
\* advances, with the merge, exactly after the 2L-th call.
C18_LowResource ==
  [][ (LOW_RESOURCE /\ last'.op = "hook" /\ err' = "none") =>
        /\ last'.layer = cur_att_layer
        /\ last'.layer = (calls' - 1) % (2 * num_att_layers)
        /\ IF last'.layer < num_att_layers
           THEN /\ ~last'.forwarded
                /\ last'.ret = Received'
                /\ UNCHANGED <<step_store, attention_store>>
           ELSE /\ last'.forwarded
                /\ Received'.rows = nprompts * LastLayer'.heads
                /\ last'.ret = Transformed(Received', LastLayer'.is_cross, cur_step)
        /\ IF last'.layer = 2 * num_att_layers - 1
           THEN cur_step' = cur_step + 1 /\ cur_att_layer' = 0 /\ last'.merged
           ELSE cur_step' = cur_step /\ ~last'.merged ]_vars

\* C18 witness: the conditional pass of the second timestep has rewritten a
\* cross-attention map, and the call ended the timestep.
C18_Witness ==
  /\ LOW_RESOURCE /\ last.op = "hook" /\ err = "none"
  /\ IsEdit(controller) /\ LastLayer.is_cross
  /\ last.forwarded /\ last.merged
  /\ cur_step = 2
  /\ last.ret # Received

\* C19: outside low-resource mode a hook call of any controller returns a
\* tensor of the received shape whose first half is the first half received
\* and whose second half is the controller's transform of the second half
\* received; EmptyControl returns the tensor as received, and its counters
\* advance like those of every controller.
C19_SecondHalf ==
  (~LOW_RESOURCE /\ last.op = "hook" /\ err = "none") =>
    /\ last.forwarded
    /\ SameShape(last.ret, Received)
    /\ DOMAIN last.ret.d = RowIdx(Received)
    /\ SliceStart = Received.rows \div 2
    /\ \A r \in 0 .. (SliceStart - 1) : last.ret.d[r] = Received.d[r]
    /\ ReturnedSlice = Transformed(ReceivedSlice, LastLayer.is_cross, last.step)
    /\ (controller.kind = "Empty") => last.ret = Received
    /\ calls > 0
    /\ cur_step = calls \div CallsPerStep
    /\ cur_att_layer = calls % CallsPerStep

\* C19 witness: an edit controller has rewritten the second half of a
\* cross-attention map whose first half differs from its second.
C19_Witness ==
  /\ ~LOW_RESOURCE /\ last.op = "hook" /\ err = "none"
  /\ IsEdit(controller) /\ LastLayer.is_cross
  /\ ReturnedSlice # ReceivedSlice
  /\ SliceTo(Received, SliceStart) # ReceivedSlice
  /\ cur_step = 2

\* The timestep a session's n-th hook call belongs to.
TimestepOf(n) == (n - 1) \div CallsPerStep

\* C20: a hook call of timestep t runs the transform with cur_step = t (the
\* cross-replace schedule entry and the self-replace window test are those of
\* t); cur_step changes only with the last call of a timestep, and that call,
\* and no other, runs the end-of-step merge.  last.step is the cur_step the
\* call has read, hist grows by one with every merge.
C20_StepSeen ==
  (last.op = "hook" /\ err = "none") =>
    /\ last.step = TimestepOf(calls)
    /\ last.forwarded =>
         ReturnedSlice = Transformed(ReceivedSlice, LastLayer.is_cross, TimestepOf(calls))
    /\ last.merged <=> (calls % CallsPerStep = 0)
    /\ cur_step = IF last.merged THEN last.step + 1 ELSE last.step
    /\ IsStore(controller) => Len(hist) = cur_step

\* C20 witness: a call of timestep 1 has rewritten a map, and the schedule of
\* timestep 0 or of timestep 2 would have rewritten it otherwise.
C20_Witness ==
  /\ last.op = "hook" /\ err = "none" /\ last.forwarded
  /\ IsEdit(controller)
  /\ last.step = 1 /\ TimestepOf(calls) = 1
  /\ ReturnedSlice # ReceivedSlice
  /\ ReturnedSlice # Transformed(ReceivedSlice, LastLayer.is_cross, 0)
  /\ num_inference_steps = 2
  /\ ReturnedSlice # Transformed(ReceivedSlice, LastLayer.is_cross, 2)

\* C21: on every hook call of an edit controller that runs the transform,
\* cross or self, inside or outside the replacement windows, the rows of the
\* source prompt in the slice handed to the transform are returned as received.
C21_SourceRows ==
  (last.op = "hook" /\ last.forwarded /\ err = "none" /\ IsEdit(controller)) =>
    /\ HeadsPerPrompt > 0
    /\ ReturnedSlice.rows = ReceivedSlice.rows
    /\ \A r \in 0 .. (HeadsPerPrompt - 1) : ReturnedSlice.d[r] = ReceivedSlice.d[r]

\* C21 witness: a call has rewritten rows of an edited prompt that differ
\* from the source prompt's rows, and the source rows are as received.
C21_Witness ==
  /\ last.op = "hook" /\ last.forwarded /\ err = "none" /\ IsEdit(controller)
  /\ ReturnedSlice # ReceivedSlice
  /\ \E r \in 0 .. (HeadsPerPrompt - 1) :
       /\ ReturnedSlice.d[r] = ReceivedSlice.d[r]
       /\ ReceivedSlice.d[r] # ReceivedSlice.d[r + HeadsPerPrompt]
  /\ cur_step = 2

\* The key the last hook call records under, and whether its map is recorded.
LastKey == KeyOf(LastLayer.place_in_unet, LastLayer.is_cross)
LastRecorded == LastLayer.res <= StoreThreshold
\* The scratch store as the last hook call's forward() left it (the merge of
\* a timestep's last call empties step_store; hist keeps what it held).
LastScratch == IF last.merged THEN hist[Len(hist)] ELSE step_store
\* The entry the last hook call has appended.
LastEntry == LastScratch[LastKey][Len(LastScratch[LastKey])]

\* A hook call of an edit controller has run forward() and recorded its map.
EditRecorded ==
  /\ last.op = "hook" /\ last.forwarded /\ err = "none"
  /\ IsEdit(controller) /\ LastRecorded

\* C22: the entry an edit controller's hook call records keeps the attention
\* values the hook received; the replacement written later in the call and
\* the write-back into the host tensor do not change it.
C22_StoredAsReceived ==
  EditRecorded => LastEntry = ReceivedSlice

\* What the call leaves in the store: the recorded entry is the tensor object
\* forward() received, which the in-place writes of the same call rewrite, so
\* once the call is over it holds the values the call returns.
C22_StoredIsReturned ==
  EditRecorded =>
    /\ Len(LastScratch[LastKey]) > 0
    /\ LastEntry = ReturnedSlice

\* A recorded entry holds replaced rows: it differs from what the hook received.
C22_StoredRewritten ==
  /\ EditRecorded
  /\ LastEntry # ReceivedSlice
  /\ LastEntry = ReturnedSlice
  /\ \E r \in EditedRows : LastEntry.d[r] # ReceivedSlice.d[r]

====
